---- MODULE Spec2Model ----
(***************************************************************************)
(* Throttle control engine of the FireBeetle ESP32 ESC bring-up firmware   *)
(* (functions.ino): forward-only pulse model, ramp engine, text command    *)
(* interpreter, and the two execution contexts that run it: the Arduino    *)
(* loop task (setup() then loop() forever) and the BLE stack task that     *)
(* runs the connection and RX-write callbacks.                             *)
(*                                                                         *)
(* Representation choices:                                                 *)
(*  - float g_outputPct is an exact rational with denominator PctScale;    *)
(*    float rounding error is not modelled.                                *)
(*  - a text line is a record [kw, arg] (or [kw, btn, st] for a Control    *)
(*    Pad packet): kw is the upper-cased keyword the handler matches and   *)
(*    arg the value String::toInt()/toFloat() yields for the rest.         *)
(*  - g_lastInputMs is written by setTargetPercent/stopMotor and read      *)
(*    nowhere; it is left out.                                             *)
(*  - the loop task and the BLE task share the globals with no lock; the   *)
(*    loop's tick is split at its shared reads and writes so that a BLE    *)
(*    callback can land between them.                                      *)
(***************************************************************************)
EXTENDS Integers, Sequences, FiniteSets, TLC

(***************************************************************************)
(* Bounds of the model                                                     *)
(***************************************************************************)
\* lines accepted over both transports in one run
MaxCmds == 2
\* loop() iterations in one run
MaxIters == 4
\* the pure functions are applied to every integer from -FnSpan to usMax + FnSpan
FnSpan == 300
\* rounding error allowed in a float quotient, in 1/PctScale percent
FloatErr == 1

(***************************************************************************)
(* Program constants                                                       *)
(***************************************************************************)
BTN_FULL_ID == 1
BTN_STOP_ID == 2
BTN_UP_ID == 5
BTN_DOWN_ID == 6
\* escArmNeutral(3000) at boot and in the ARM branch
ARM_HOLD_MS == 3000
\* outputPct is kept in units of 1/PctScale percent
PctScale == 300
\* MOTOR_KV_RPM_PER_V * g_battVoltage_V = (20000/7.2)*8.4 = 70000/3 rpm
RpmNoLoadNum == 70000
RpmNoLoadDen == 3

\* mutant: the forward band starts below neutral
EscConfig_FwdBelowNeutral ==
  [pinSignal |-> 16, usMin |-> 1000, usMax |-> 2000, usNeutral |-> 1500,
   usMinFwd |-> 1480, usMaxFwd |-> 2000]

\* struct EscConfig default member initialisers
EscConfig ==
  [pinSignal |-> 16, usMin |-> 1000, usMax |-> 2000, usNeutral |-> 1500,
   usMinFwd |-> 1520, usMaxFwd |-> 2000]

VARIABLES
  g_escCfg,          \* static EscConfig g_escCfg
  g_armed,           \* static bool g_armed
  g_targetPct,       \* static uint8_t g_targetPct
  g_outputPct,       \* static float g_outputPct, in 1/PctScale percent
  g_lastLoopMs,      \* static uint32_t g_lastLoopMs
  g_rampTimeMs,      \* static uint32_t g_rampTimeMs
  g_debugEnabled,    \* static bool g_debugEnabled
  g_logEnabled,      \* static bool g_logEnabled
  g_logPeriodMs,     \* static uint32_t g_logPeriodMs
  g_lastLogMs,       \* static uint32_t g_lastLogMs
  g_deviceConnected, \* static bool g_deviceConnected
  led,               \* level of LED_PIN
  pulse,             \* last width given to g_esc.writeMicroseconds; 0 = none yet
  lastLine,          \* line the last step gave to logLine; NoLine if none
  now,               \* millis()
  bleUp,             \* BLE server started and advertising
  loopPc,            \* position of the loop task
  loopT0,            \* t0 of the loop task's escArmNeutral
  tkDt,              \* dt of the tick in progress
  blePc,             \* position of the BLE task
  bleT0,             \* t0 of the BLE task's escArmNeutral
  cmds,              \* lines accepted so far
  iters,             \* loop() iterations finished so far
  tkRamp,            \* g_rampTimeMs as the tick in progress read it
  tkOut,             \* g_outputPct value the tick in progress is about to store
  pulseRaw,          \* history: argument of the last escWriteMicrosecondsSafe
  lastWriter,        \* history: task that last wrote armed/target/output/ramp
  stopped,           \* history: STOP handled, and no later line has raised the
                     \* target or injected a raw pulse (US)
  prevOut,           \* history: g_outputPct as the previous tick left it; -1 = none
  quiet,             \* history: ramp bookkeeping since the last handled line
  handled,           \* history: line the last step handled, and the control
                     \* state as that line found it; NotHandled if none
  logHist,           \* history: time of the last LOG START, g_logPeriodMs
                     \* then, whether appLoop was running then, t_ms of the
                     \* CSV lines emitted since, and t_ms of the latest CSV
                     \* line of the run (-1 = none)
  arming,            \* history: ARM lines taken in, escArmNeutral calls begun
  fnOp, fnArg, fnRes \* harness: operation applied, its input, its result

vars ==
  <<g_escCfg, g_armed, g_targetPct, g_outputPct, g_lastLoopMs, g_rampTimeMs,
    g_debugEnabled, g_logEnabled, g_logPeriodMs, g_lastLogMs,
    g_deviceConnected, led, pulse, lastLine, now, bleUp, loopPc, loopT0,
    tkDt, tkRamp, tkOut, blePc, bleT0, cmds, iters, pulseRaw, lastWriter,
    stopped, prevOut, quiet, handled, logHist, arming, fnOp, fnArg, fnRes>>

(***************************************************************************)
(* Utilities and pulse model                                               *)
(***************************************************************************)
\* mutant: the upper bound is not applied
clampInt_NoUpper(v, lo, hi) == IF v < lo THEN lo ELSE v

clampInt(v, lo, hi) == IF v < lo THEN lo ELSE IF v > hi THEN hi ELSE v

clampFloat(v, lo, hi) == IF v < lo THEN lo ELSE IF v > hi THEN hi ELSE v

\* (uint8_t) conversion of an int
U8(v) == v % 256

\* (uint8_t)(g_outputPct + 0.5f): truncation of a non-negative float
RoundPct(out) == U8((out + PctScale \div 2) \div PctScale)

\* mutant: the forward-only snap to neutral is missing
escClampForwardOnly_NoSnap(cfg, us) ==
  LET a == clampInt(us, cfg.usMin, cfg.usMax)
  IN  IF a > cfg.usMaxFwd THEN cfg.usMaxFwd ELSE a

\* mutant: the snap compares against usNeutral, not usMinFwd
escClampForwardOnly_SnapLate(cfg, us) ==
  LET a == clampInt(us, cfg.usMin, cfg.usMax)
      b == IF a < cfg.usNeutral THEN cfg.usNeutral ELSE a
  IN  IF b > cfg.usMaxFwd THEN cfg.usMaxFwd ELSE b

escClampForwardOnly(cfg, us) ==
  LET a == clampInt(us, cfg.usMin, cfg.usMax)
      b == IF a < cfg.usMinFwd THEN cfg.usNeutral ELSE a
  IN  IF b > cfg.usMaxFwd THEN cfg.usMaxFwd ELSE b

\* mutant: 0 % is interpolated like any other percentage
escPulseFromPercent_NoZero(cfg, pct8) ==
  LET pct  == clampInt(pct8, 0, 100)
      span == cfg.usMaxFwd - cfg.usMinFwd
  IN  cfg.usMinFwd + (span * pct) \div 100

escPulseFromPercent(cfg, pct8) ==
  LET pct  == clampInt(pct8, 0, 100)
      span == cfg.usMaxFwd - cfg.usMinFwd
  IN  IF pct = 0 THEN cfg.usNeutral
      ELSE escClampForwardOnly(cfg, cfg.usMinFwd + (span * pct) \div 100)

\* estimateRpmFromPercent for an integral percentage: the estimate is
\* num / den rpm (rpmNoLoad * pct / 100 with rpmNoLoad = 70000/3)
estimateRpmFromPercent(pct) ==
  [num |-> (RpmNoLoadNum * clampFloat(pct, 0, 100)) \div 100,
   den |-> RpmNoLoadDen]

\* mutant: the float is truncated, the + 0.5f is missing
percentFromTargetRpmOf_Trunc(num, den, e) ==
  IF num <= 0 THEN 0
  ELSE LET pct == (num * RpmNoLoadDen * PctScale)
                    \div (den * (RpmNoLoadNum \div 100)) + e
       IN  U8(clampFloat(pct, 0, 100 * PctScale) \div PctScale)

\* percentFromTargetRpm for a target of num / den rpm. pct is the float
\* 100 * (rpmTarget / rpmNoLoad) in 1/PctScale percent, e the rounding error
\* the two float operations left in it
percentFromTargetRpmOf(num, den, e) ==
  IF num <= 0 THEN 0
  ELSE LET pct == (num * RpmNoLoadDen * PctScale)
                    \div (den * (RpmNoLoadNum \div 100)) + e
       IN  RoundPct(clampFloat(pct, 0, 100 * PctScale))

\* percentFromTargetRpm for an integral rpm target
percentFromTargetRpm(rpm) == percentFromTargetRpmOf(rpm, 1, 0)

\* maxDelta = 100.0f * ((float)dt / (float)g_rampTimeMs), in 1/PctScale percent
MaxDelta(dt, ramp) == (100 * PctScale * dt) \div ramp

Abs(x) == IF x < 0 THEN -x ELSE x

(***************************************************************************)
(* Ramp engine, as functions of what the tick reads                        *)
(***************************************************************************)
\* mutant: the snap onto the target is missing, the step is always maxDelta
RampStep_Overshoot(ramp, dt, target, out) ==
  LET t     == target * PctScale
      delta == t - out
      moved == IF ramp = 0 \/ dt = 0 THEN t
               ELSE IF delta > 0 THEN out + MaxDelta(dt, ramp)
               ELSE out - MaxDelta(dt, ramp)
  IN  clampFloat(moved, 0, 100 * PctScale)

\* mutant: the sign of the step is reversed
RampStep_Away(ramp, dt, target, out) ==
  LET t     == target * PctScale
      delta == t - out
      moved == IF ramp = 0 \/ dt = 0 THEN t
               ELSE IF Abs(delta) <= MaxDelta(dt, ramp) THEN t
               ELSE IF delta > 0 THEN out - MaxDelta(dt, ramp)
               ELSE out + MaxDelta(dt, ramp)
  IN  clampFloat(moved, 0, 100 * PctScale)

\* the armed part of applyThrottleWithRamping up to the clampFloat
RampStep(ramp, dt, target, out) ==
  LET t     == target * PctScale
      delta == t - out
      moved == IF ramp = 0 \/ dt = 0 THEN t
               ELSE IF Abs(delta) <= MaxDelta(dt, ramp) THEN t
               ELSE IF delta > 0 THEN out + MaxDelta(dt, ramp)
               ELSE out - MaxDelta(dt, ramp)
  IN  clampFloat(moved, 0, 100 * PctScale)

\* dt = (g_lastLoopMs == 0) ? 0 : (now - g_lastLoopMs)
TickDt(t, last) == IF last = 0 THEN 0 ELSE t - last

\* mutant: the armed check is missing
applyThrottleWithRamping_NoArmCheck(cfg, armed, ramp, dt, target, out) ==
  LET o == RampStep(ramp, dt, target, out)
  IN  [out |-> o, us |-> escPulseFromPercent(cfg, RoundPct(o))]

\* applyThrottleWithRamping run without interruption: the output it stores and
\* the width it hands to escWriteMicrosecondsSafe
applyThrottleWithRamping(cfg, armed, ramp, dt, target, out) ==
  IF ~armed THEN [out |-> 0, us |-> cfg.usNeutral]
  ELSE LET o == RampStep(ramp, dt, target, out)
       IN  [out |-> o, us |-> escPulseFromPercent(cfg, RoundPct(o))]

(***************************************************************************)
(* Input lines                                                             *)
(***************************************************************************)
SetArgs == {-5, 80, 300}
RpmArgs == {-100, 11667}
UsArgs == {900, 1510, 1800, 2500}
RampArgs == {-1, 10, 20000}
LogPeriodArgs == {5, 100}
BtnIds == {BTN_FULL_ID, BTN_STOP_ID, BTN_UP_ID, BTN_DOWN_ID, 7}
BtnStates == {0, 1}

Plain(k) == [kw |-> k, arg |-> 0, btn |-> 0, st |-> 0]
WithArg(k, a) == [kw |-> k, arg |-> a, btn |-> 0, st |-> 0]

Lines ==
  {Plain(k) : k \in {"", "HELP", "LED ON", "ARM", "STOP", "0", "FULL", "1",
                     "DBG OFF", "LOG START", "LOG STOP", "STATUS", "FOO"}}
  \cup {WithArg("SET", a) : a \in SetArgs}
  \cup {WithArg("RPM", a) : a \in RpmArgs}
  \cup {WithArg("US", a) : a \in UsArgs}
  \cup {WithArg("RAMP", a) : a \in RampArgs}
  \cup {WithArg("LOG PERIOD", a) : a \in LogPeriodArgs}
  \cup {[kw |-> "!B", arg |-> 0, btn |-> b, st |-> s] : b \in BtnIds, s \in BtnStates}

\* loop() period: delay(5) plus the time the iteration itself took
LoopDts == {5}
\* lumps of delay(10) iterations of the hold in escArmNeutral
HoldDts == {3000}

NoLine ==
  [kind |-> "none", tag |-> "", targetPct |-> 0, pulse |-> 0, ramp |-> 0,
   log |-> FALSE]

\* history value of a step that handled no line
NotHandled ==
  [line |-> Plain("(none)"), armed |-> FALSE, targetPct |-> 0,
   outputPct |-> 0, rampTimeMs |-> 0, logEnabled |-> FALSE,
   logPeriodMs |-> 0, pulse |-> 0, pulseRaw |-> 0]

(***************************************************************************)
(* Initial state: the static initialisers, before setup() runs             *)
(***************************************************************************)
\* the initialisers of the state the ramp engine works on, g_targetPct apart
StaticRamp ==
  /\ g_armed = FALSE
  /\ g_outputPct = 0
  /\ g_lastLoopMs = 0
  /\ g_rampTimeMs = 300
  /\ pulse = 0
  /\ pulseRaw = 0
  /\ now = 0

\* the other initialisers, and the history before anything has run
StaticRest ==
  /\ g_escCfg = EscConfig
  /\ g_debugEnabled = TRUE
  /\ g_logEnabled = FALSE
  /\ g_logPeriodMs = 200
  /\ g_lastLogMs = 0
  /\ g_deviceConnected = FALSE
  /\ led = FALSE
  /\ lastLine = NoLine
  /\ bleUp = FALSE
  /\ loopT0 = 0
  /\ tkDt = 0
  /\ tkRamp = 0
  /\ tkOut = 0
  /\ blePc = "idle"
  /\ bleT0 = 0
  /\ cmds = 0
  /\ iters = 0
  /\ lastWriter = "none"
  /\ stopped = FALSE
  /\ prevOut = -1
  /\ quiet = [since |-> 0, ticked |-> FALSE, up |-> TRUE, from |-> 0,
              mid |-> FALSE, tick0 |-> 0]
  /\ handled = NotHandled
  /\ logHist = [since |-> -1, period |-> 0, inLoop |-> FALSE,
                stamps |-> <<>>, prev |-> -1]
  /\ arming = [cmds |-> 0, holds |-> 0]

\* every initialiser but that of g_targetPct
StaticOther ==
  /\ StaticRamp
  /\ StaticRest

StaticInit ==
  /\ StaticOther
  /\ g_targetPct = 0

Init ==
  /\ StaticInit
  /\ loopPc = "setup"
  /\ fnOp = "none" /\ fnArg = 0 /\ fnRes = 0

(***************************************************************************)
(* Throttle state update and telemetry                                     *)
(***************************************************************************)
escWriteMicrosecondsSafe(us) ==
  /\ pulse' = escClampForwardOnly(g_escCfg, us)
  /\ pulseRaw' = us

NoPulseWritten == UNCHANGED <<pulse, pulseRaw>>

\* mutant: the value is added to the target instead of replacing it
setTargetPercent_Add(pct8) ==
  g_targetPct' = U8(clampInt(g_targetPct + pct8, 0, 100))

setTargetPercent(pct8) == g_targetPct' = U8(clampInt(pct8, 0, 100))

stopMotor ==
  /\ g_targetPct' = 0
  /\ g_outputPct' = 0
  /\ escWriteMicrosecondsSafe(g_escCfg.usNeutral)

\* mutant: the line is built before the handler's stores, from the globals as
\* the handler found them
printStatus_Stale(reason) ==
  lastLine' =
    [kind |-> "STATUS", tag |-> reason, targetPct |-> g_targetPct,
     pulse |-> escPulseFromPercent(g_escCfg, RoundPct(g_outputPct)),
     ramp |-> g_rampTimeMs, log |-> g_logEnabled]

\* the line printStatus builds from the globals as the handler left them;
\* of its fields the tag, targetPct, pulse_us, ramp_ms and log are kept
printStatus(reason) ==
  lastLine' =
    [kind |-> "STATUS", tag |-> reason, targetPct |-> g_targetPct',
     pulse |-> escPulseFromPercent(g_escCfg, RoundPct(g_outputPct')),
     ramp |-> g_rampTimeMs', log |-> g_logEnabled']

\* logLine of a fixed text
logLine(text) == lastLine' = [NoLine EXCEPT !.kind = "TEXT", !.tag = text]

\* the line logCsvNow builds from the globals as the tick before it in the
\* iteration left them; of its fields the tag, targetPct and pulse_us are kept
logCsvNow(tag) ==
  lastLine' =
    [kind |-> "CSV", tag |-> tag, targetPct |-> g_targetPct',
     pulse |-> escPulseFromPercent(g_escCfg, RoundPct(g_outputPct')),
     ramp |-> 0, log |-> FALSE]

(***************************************************************************)
(* handleTextCommand, every branch but ARM (which blocks: see the holds)   *)
(***************************************************************************)
IsStopLine(c) ==
  \/ c.kw \in {"STOP", "0"}
  \/ c.kw = "!B" /\ c.st = 1 /\ c.btn = BTN_STOP_ID

\* the branch taken stores into g_targetPct, g_outputPct or g_rampTimeMs
WritesControl(c) ==
  \/ c.kw \in {"STOP", "0", "FULL", "1", "SET", "RPM", "US", "RAMP"}
  \/ c.kw = "!B" /\ c.st = 1
       /\ c.btn \in {BTN_UP_ID, BTN_DOWN_ID, BTN_FULL_ID, BTN_STOP_ID}

KeepTelemetryConfig == UNCHANGED <<g_debugEnabled, g_logEnabled, g_logPeriodMs, led>>

\* mutant: everything but a release counts as a press
IsPress_NotRelease(st) == st # 0

\* if (state != 1) return; // only press
IsPress(st) == st = 1

\* logLine("CPAD: unknown button")
unknownButton ==
  /\ UNCHANGED <<g_targetPct, g_outputPct>> /\ NoPulseWritten
  /\ logLine("CPAD: unknown button")

\* mutant: an unknown line is taken as a request to stop
unknownCommand_Stops ==
  /\ stopMotor
  /\ logLine("Unknown cmd")

\* logLine("Unknown cmd: " + cmd)
unknownCommand ==
  /\ UNCHANGED <<g_targetPct, g_outputPct>> /\ NoPulseWritten
  /\ logLine("Unknown cmd")

handleButton(c) ==
  /\ c.kw = "!B"
  /\ KeepTelemetryConfig
  /\ UNCHANGED g_rampTimeMs
  /\ IF ~IsPress(c.st)
       THEN /\ UNCHANGED <<g_targetPct, g_outputPct>> /\ NoPulseWritten
            /\ lastLine' = NoLine
     ELSE IF c.btn = BTN_UP_ID
       THEN /\ setTargetPercent(U8(clampInt(g_targetPct + 5, 0, 100)))
            /\ UNCHANGED g_outputPct /\ NoPulseWritten
            /\ printStatus("CPAD_UP")
     ELSE IF c.btn = BTN_DOWN_ID
       THEN /\ setTargetPercent(U8(clampInt(g_targetPct - 5, 0, 100)))
            /\ UNCHANGED g_outputPct /\ NoPulseWritten
            /\ printStatus("CPAD_DOWN")
     ELSE IF c.btn = BTN_FULL_ID
       THEN /\ setTargetPercent(100)
            /\ UNCHANGED g_outputPct /\ NoPulseWritten
            /\ printStatus("CPAD_FULL")
     ELSE IF c.btn = BTN_STOP_ID
       THEN /\ stopMotor
            /\ printStatus("CPAD_STOP")
     ELSE unknownButton

handleKeyword(c) ==
  /\ c.kw \notin {"!B", "ARM"}
  /\ g_debugEnabled' = (IF c.kw = "DBG ON" THEN TRUE
                        ELSE IF c.kw = "DBG OFF" THEN FALSE ELSE g_debugEnabled)
  /\ g_logEnabled' = (IF c.kw = "LOG START" THEN TRUE
                      ELSE IF c.kw = "LOG STOP" THEN FALSE ELSE g_logEnabled)
  /\ g_logPeriodMs' = (IF c.kw = "LOG PERIOD" THEN clampInt(c.arg, 20, 10000)
                       ELSE g_logPeriodMs)
  /\ led' = (IF c.kw = "LED ON" THEN TRUE
             ELSE IF c.kw = "LED OFF" THEN FALSE ELSE led)
  /\ g_rampTimeMs' = (IF c.kw = "RAMP" THEN clampInt(c.arg, 0, 10000)
                      ELSE g_rampTimeMs)
  /\ CASE c.kw \in {"STOP", "0"} ->
            /\ stopMotor
            /\ printStatus("STOP")
       [] c.kw \in {"FULL", "1"} ->
            /\ setTargetPercent(100)
            /\ UNCHANGED g_outputPct /\ NoPulseWritten
            /\ printStatus("FULL")
       [] c.kw = "SET" ->
            /\ setTargetPercent(U8(clampInt(c.arg, 0, 100)))
            /\ UNCHANGED g_outputPct /\ NoPulseWritten
            /\ printStatus("SET")
       [] c.kw = "RPM" ->
            /\ setTargetPercent(percentFromTargetRpm(c.arg))
            /\ UNCHANGED g_outputPct /\ NoPulseWritten
            /\ printStatus("RPM")
       [] c.kw = "US" ->
            /\ escWriteMicrosecondsSafe(c.arg)
            /\ g_outputPct' = g_targetPct * PctScale
            /\ UNCHANGED g_targetPct
            /\ printStatus("US")
       [] c.kw = "RAMP" ->
            /\ UNCHANGED <<g_targetPct, g_outputPct>> /\ NoPulseWritten
            /\ printStatus("RAMP")
       [] c.kw = "LOG PERIOD" ->
            /\ UNCHANGED <<g_targetPct, g_outputPct>> /\ NoPulseWritten
            /\ printStatus("LOGPER")
       [] c.kw = "STATUS" ->
            /\ UNCHANGED <<g_targetPct, g_outputPct>> /\ NoPulseWritten
            /\ printStatus("MANUAL")
       [] c.kw = "" ->
            /\ UNCHANGED <<g_targetPct, g_outputPct>> /\ NoPulseWritten
            /\ lastLine' = NoLine
       [] c.kw = "HELP" ->
            /\ UNCHANGED <<g_targetPct, g_outputPct>> /\ NoPulseWritten
            /\ logLine("HELP")
       [] c.kw \in {"LED ON", "LED OFF", "DBG ON", "DBG OFF", "LOG STOP"} ->
            /\ UNCHANGED <<g_targetPct, g_outputPct>> /\ NoPulseWritten
            /\ logLine(c.kw)
       [] c.kw = "LOG START" ->
            /\ UNCHANGED <<g_targetPct, g_outputPct>> /\ NoPulseWritten
            /\ logLine("LOG START (CSV)")
       [] OTHER -> unknownCommand

\* history: a quiet stretch (no line handled) starting at time t; tick0 is
\* g_lastLoopMs at that time
QuietFrom(t, target, out) ==
  [since |-> t, ticked |-> FALSE, up |-> out <= target * PctScale,
   from |-> out, mid |-> FALSE, tick0 |-> g_lastLoopMs]

\* history kept beside a handled line
NoteLine(c, ctx) ==
  /\ lastWriter' = (IF WritesControl(c) THEN ctx ELSE lastWriter)
  /\ stopped' = (IF IsStopLine(c) THEN TRUE
                 ELSE IF g_targetPct' > 0 \/ c.kw = "US" THEN FALSE
                 ELSE stopped)
  /\ quiet' = QuietFrom(now, g_targetPct', g_outputPct')
  /\ handled' =
       [line |-> c, armed |-> g_armed, targetPct |-> g_targetPct,
        outputPct |-> g_outputPct, rampTimeMs |-> g_rampTimeMs,
        logEnabled |-> g_logEnabled, logPeriodMs |-> g_logPeriodMs,
        pulse |-> pulse, pulseRaw |-> pulseRaw]
  /\ logHist' = (IF c.kw = "LOG START"
                   THEN [since |-> now, period |-> g_logPeriodMs,
                         inLoop |-> loopPc \notin {"setup", "boot_hold",
                                                    "arm_hold"},
                         stamps |-> <<>>, prev |-> logHist.prev]
                   ELSE logHist)

\* handleTextCommand(cmd) run by task ctx, for every line but ARM;
\* g_armed is not stored by any of these branches
handleTextCommand(c, ctx) ==
  /\ UNCHANGED <<g_armed, g_deviceConnected, arming>>
  /\ \/ handleButton(c)
     \/ handleKeyword(c)
  /\ NoteLine(c, ctx)

(***************************************************************************)
(* The loop task: appSetup, then appLoop forever                           *)
(***************************************************************************)
fnVars == <<fnOp, fnArg, fnRes>>
tickLocals == <<tkDt, tkRamp, tkOut>>
teleVars == <<g_debugEnabled, g_logEnabled, g_logPeriodMs, led>>
bleTask == <<blePc, bleT0>>

Holding(pc) == pc \in {"boot_hold", "arm_hold"}

\* appSetup up to the first statement of escArmNeutral(3000): the two delays,
\* the neutral writes, BLE start, printHelp, t0 = millis()
AppSetup ==
  /\ loopPc = "setup"
  /\ now' = now + 300 + 200
  /\ escWriteMicrosecondsSafe(g_escCfg.usNeutral)
  /\ bleUp' = TRUE
  /\ logLine("HELP")
  /\ loopT0' = now'
  /\ loopPc' = "boot_hold"
  /\ UNCHANGED <<g_escCfg, g_armed, g_targetPct, g_outputPct, g_lastLoopMs,
                 g_rampTimeMs, teleVars, g_lastLogMs, g_deviceConnected,
                 tickLocals, bleTask, cmds, iters, lastWriter, stopped,
                 prevOut, quiet, fnVars>>
  /\ handled' = NotHandled
  /\ arming' = [arming EXCEPT !.holds = @ + 1]
  /\ UNCHANGED logHist

\* while (millis() - t0 < msHold) delay(10), d ms of it
LoopHoldWait(d) ==
  /\ Holding(loopPc)
  /\ now - loopT0 < ARM_HOLD_MS
  /\ now + d - loopT0 <= ARM_HOLD_MS
  /\ now' = now + d
  /\ lastLine' = NoLine
  /\ UNCHANGED <<g_escCfg, g_armed, g_targetPct, g_outputPct, g_lastLoopMs,
                 g_rampTimeMs, teleVars, g_lastLogMs, g_deviceConnected,
                 pulse, pulseRaw, bleUp, loopPc, loopT0, tickLocals,
                 bleTask, cmds, iters, lastWriter, stopped, prevOut, quiet,
                 fnVars>>
  /\ handled' = NotHandled
  /\ UNCHANGED <<logHist, arming>>

\* end of escArmNeutral, then stopMotor and printStatus of the caller
LoopHoldDone ==
  /\ Holding(loopPc)
  /\ now - loopT0 >= ARM_HOLD_MS
  /\ g_armed' = TRUE
  /\ stopMotor
  /\ UNCHANGED <<g_rampTimeMs, teleVars, g_deviceConnected>>
  /\ printStatus(IF loopPc = "boot_hold" THEN "BOOT" ELSE "ARMED")
  /\ loopPc' = (IF loopPc = "boot_hold" THEN "serial" ELSE "tick")
  /\ lastWriter' = "loop"
  /\ quiet' = QuietFrom(now, 0, 0)
  /\ UNCHANGED <<g_escCfg, g_lastLoopMs, g_lastLogMs, now, bleUp, loopT0,
                 tickLocals, bleTask, cmds, iters, stopped, prevOut, fnVars>>
  /\ handled' = NotHandled
  /\ UNCHANGED <<logHist, arming>>

\* appLoop: Serial.available() is false
SerialNone ==
  /\ loopPc = "serial"
  /\ iters < MaxIters
  /\ loopPc' = "tick"
  /\ lastLine' = NoLine
  /\ UNCHANGED <<g_escCfg, g_armed, g_targetPct, g_outputPct, g_lastLoopMs,
                 g_rampTimeMs, teleVars, g_lastLogMs, g_deviceConnected,
                 pulse, pulseRaw, now, bleUp, loopT0, tickLocals,
                 bleTask, cmds, iters, lastWriter, stopped, prevOut, quiet,
                 fnVars>>
  /\ handled' = NotHandled
  /\ UNCHANGED <<logHist, arming>>

\* appLoop: a line read from Serial and handled
SerialLine(c) ==
  /\ loopPc = "serial"
  /\ iters < MaxIters
  /\ cmds < MaxCmds
  /\ c.kw # "ARM"
  /\ handleTextCommand(c, "loop")
  /\ cmds' = cmds + 1
  /\ loopPc' = "tick"
  /\ UNCHANGED <<g_escCfg, g_lastLoopMs, g_lastLogMs, now, bleUp, loopT0,
                 tickLocals, bleTask, iters, prevOut, fnVars>>

\* appLoop: ARM read from Serial; escArmNeutral starts its hold
SerialArm ==
  /\ loopPc = "serial"
  /\ iters < MaxIters
  /\ cmds < MaxCmds
  /\ escWriteMicrosecondsSafe(g_escCfg.usNeutral)
  /\ loopT0' = now
  /\ cmds' = cmds + 1
  /\ loopPc' = "arm_hold"
  /\ lastLine' = NoLine
  /\ quiet' = QuietFrom(now, g_targetPct, g_outputPct)
  /\ UNCHANGED <<g_escCfg, g_armed, g_targetPct, g_outputPct, g_lastLoopMs,
                 g_rampTimeMs, teleVars, g_lastLogMs, g_deviceConnected,
                 now, bleUp, tickLocals, bleTask, iters, lastWriter,
                 stopped, prevOut, fnVars>>
  /\ handled' = NotHandled
  /\ arming' = [cmds |-> arming.cmds + 1, holds |-> arming.holds + 1]
  /\ UNCHANGED logHist

\* mutant: the time of the emission is not kept
LoopLog_NoStamp(d) ==
  /\ IF g_logEnabled /\ now - g_lastLogMs >= g_logPeriodMs
       THEN /\ logCsvNow("LOG") /\ UNCHANGED g_lastLogMs
            /\ logHist' = [logHist EXCEPT !.stamps = Append(@, now),
                                          !.prev = now]
       ELSE lastLine' = NoLine /\ UNCHANGED <<g_lastLogMs, logHist>>
  /\ now' = now + d
  /\ iters' = iters + 1
  /\ loopPc' = "serial"

\* appLoop: the periodic CSV line, then delay(5); the iteration took d ms
LoopLog(d) ==
  /\ IF g_logEnabled /\ now - g_lastLogMs >= g_logPeriodMs
       THEN /\ logCsvNow("LOG") /\ g_lastLogMs' = now
            /\ logHist' = [logHist EXCEPT !.stamps = Append(@, now),
                                          !.prev = now]
       ELSE lastLine' = NoLine /\ UNCHANGED <<g_lastLogMs, logHist>>
  /\ now' = now + d
  /\ iters' = iters + 1
  /\ loopPc' = "serial"

\* applyThrottleWithRamping, lines 288-311: now, dt, g_lastLoopMs, the armed
\* check and the new output computed from the globals as read. The unarmed
\* branch returns at once, and the rest of the iteration follows it.
TickRead(d) ==
  /\ loopPc = "tick"
  /\ tkDt' = TickDt(now, g_lastLoopMs)
  /\ g_lastLoopMs' = now
  /\ tkRamp' = g_rampTimeMs
  /\ IF ~g_armed
       THEN LET r == applyThrottleWithRamping(g_escCfg, g_armed, g_rampTimeMs,
                                              tkDt', g_targetPct, g_outputPct)
            IN  /\ escWriteMicrosecondsSafe(r.us)
                /\ g_outputPct' = r.out
                /\ prevOut' = r.out
                /\ lastWriter' = "loop"
                /\ quiet' = [quiet EXCEPT !.ticked = TRUE]
                /\ UNCHANGED <<tkOut, g_armed, g_targetPct, g_logEnabled,
                               g_logPeriodMs>>
                /\ LoopLog(d)
       ELSE /\ tkOut' = RampStep(g_rampTimeMs, tkDt', g_targetPct, g_outputPct)
            /\ loopPc' = "tick_w"
            /\ quiet' = [quiet EXCEPT !.ticked = TRUE]
            /\ lastLine' = NoLine
            /\ UNCHANGED <<g_armed, g_targetPct, g_outputPct, g_logEnabled,
                           g_logPeriodMs, pulse, pulseRaw, prevOut,
                           lastWriter, g_lastLogMs, logHist, now, iters>>
  /\ UNCHANGED <<g_escCfg, g_rampTimeMs, g_debugEnabled, led,
                 g_deviceConnected, bleUp, loopT0, bleTask, cmds, stopped,
                 fnVars>>
  /\ handled' = NotHandled
  /\ UNCHANGED arming

\* applyThrottleWithRamping, lines 308-317: the store into g_outputPct and the
\* pulse for it; then the rest of the iteration
TickWrite(d) ==
  /\ loopPc = "tick_w"
  /\ g_outputPct' = tkOut
  /\ escWriteMicrosecondsSafe(escPulseFromPercent(g_escCfg, RoundPct(tkOut)))
  /\ prevOut' = tkOut
  /\ lastWriter' = "loop"
  /\ quiet' = (IF quiet.ticked
                 THEN [quiet EXCEPT !.mid = @ \/ (quiet.from < tkOut
                                           /\ tkOut < g_targetPct * PctScale)]
                 ELSE QuietFrom(now, g_targetPct, tkOut))
  /\ UNCHANGED <<g_armed, g_targetPct, g_logEnabled, g_logPeriodMs>>
  /\ LoopLog(d)
  /\ UNCHANGED <<g_escCfg, g_lastLoopMs, g_rampTimeMs, g_debugEnabled, led,
                 g_deviceConnected, bleUp, loopT0, tickLocals, bleTask, cmds,
                 stopped, fnVars>>
  /\ handled' = NotHandled
  /\ UNCHANGED arming

(***************************************************************************)
(* The BLE task: connection callbacks and RxCallbacks::onWrite             *)
(***************************************************************************)
loopTask == <<loopPc, loopT0, tkDt, tkRamp, tkOut>>

\* MyServerCallbacks::onConnect
BleConnect ==
  /\ bleUp /\ blePc = "idle"
  /\ ~g_deviceConnected
  /\ g_deviceConnected' = TRUE
  /\ UNCHANGED <<g_armed, g_targetPct, g_outputPct, g_rampTimeMs, teleVars>>
  /\ printStatus("BLE_CONNECT")
  /\ UNCHANGED <<g_escCfg, g_lastLoopMs, g_lastLogMs, pulse, pulseRaw, now,
                 bleUp, loopTask, bleTask, cmds, iters, lastWriter, stopped,
                 prevOut, quiet, fnVars>>
  /\ handled' = NotHandled
  /\ UNCHANGED <<logHist, arming>>

\* MyServerCallbacks::onDisconnect
BleDisconnect ==
  /\ blePc = "idle"
  /\ g_deviceConnected
  /\ g_deviceConnected' = FALSE
  /\ UNCHANGED <<g_armed, g_targetPct, g_outputPct, g_rampTimeMs, teleVars>>
  /\ printStatus("BLE_DISCONNECT")
  /\ UNCHANGED <<g_escCfg, g_lastLoopMs, g_lastLogMs, pulse, pulseRaw, now,
                 bleUp, loopTask, bleTask, cmds, iters, lastWriter, stopped,
                 prevOut, quiet, fnVars>>
  /\ handled' = NotHandled
  /\ UNCHANGED <<logHist, arming>>

\* RxCallbacks::onWrite: the line is handled on the BLE task itself
BleWrite(c) ==
  /\ g_deviceConnected /\ blePc = "idle"
  /\ cmds < MaxCmds
  /\ c.kw # "ARM"
  /\ handleTextCommand(c, "ble")
  /\ cmds' = cmds + 1
  /\ UNCHANGED <<g_escCfg, g_lastLoopMs, g_lastLogMs, now, bleUp, loopTask,
                 bleTask, iters, prevOut, fnVars>>

\* RxCallbacks::onWrite with ARM: escArmNeutral starts its hold on the BLE task
BleArm ==
  /\ g_deviceConnected /\ blePc = "idle"
  /\ cmds < MaxCmds
  /\ escWriteMicrosecondsSafe(g_escCfg.usNeutral)
  /\ bleT0' = now
  /\ blePc' = "hold"
  /\ cmds' = cmds + 1
  /\ lastLine' = NoLine
  /\ quiet' = QuietFrom(now, g_targetPct, g_outputPct)
  /\ UNCHANGED <<g_escCfg, g_armed, g_targetPct, g_outputPct, g_lastLoopMs,
                 g_rampTimeMs, teleVars, g_lastLogMs, g_deviceConnected,
                 now, bleUp, loopTask, iters, lastWriter, stopped,
                 prevOut, fnVars>>
  /\ handled' = NotHandled
  /\ arming' = [cmds |-> arming.cmds + 1, holds |-> arming.holds + 1]
  /\ UNCHANGED logHist

\* the BLE task's hold has run its msHold: g_armed, stopMotor, printStatus
BleHoldDone ==
  /\ blePc = "hold"
  /\ now - bleT0 >= ARM_HOLD_MS
  /\ g_armed' = TRUE
  /\ stopMotor
  /\ UNCHANGED <<g_rampTimeMs, teleVars, g_deviceConnected>>
  /\ printStatus("ARMED")
  /\ blePc' = "idle"
  /\ lastWriter' = "ble"
  /\ quiet' = QuietFrom(now, 0, 0)
  /\ UNCHANGED <<g_escCfg, g_lastLoopMs, g_lastLogMs, now, bleUp, loopTask,
                 bleT0, cmds, iters, stopped, prevOut, fnVars>>
  /\ handled' = NotHandled
  /\ UNCHANGED <<logHist, arming>>

Next ==
  \/ AppSetup
  \/ \E d \in HoldDts : LoopHoldWait(d)
  \/ LoopHoldDone
  \/ SerialNone
  \/ \E c \in Lines : SerialLine(c)
  \/ SerialArm
  \/ \E d \in LoopDts : TickRead(d)
  \/ \E d \in LoopDts : TickWrite(d)
  \/ BleConnect
  \/ BleDisconnect
  \/ \E c \in Lines : BleWrite(c)
  \/ BleArm
  \/ BleHoldDone

Spec == Init /\ [][Next]_vars

(***************************************************************************)
(* Operation-level harness: from the static initial state, handleTextCommand*)
(* and applyThrottleWithRamping called one after the other in any order by *)
(* a single caller, each running to completion.                            *)
(***************************************************************************)
\* time between two calls of applyThrottleWithRamping
UnitDts == {5, 150}

InitUnit ==
  /\ StaticInit
  /\ loopPc = "unit"
  /\ fnOp = "none" /\ fnArg = 0 /\ fnRes = 0

\* handleTextCommand(c), any line but ARM
UnitLine(c) ==
  /\ loopPc = "unit"
  /\ cmds < MaxCmds
  /\ c.kw # "ARM"
  /\ handleTextCommand(c, "loop")
  /\ cmds' = cmds + 1
  /\ fnOp' = "line"
  /\ UNCHANGED <<g_escCfg, g_lastLoopMs, g_lastLogMs, now, bleUp, loopTask,
                 bleTask, iters, prevOut, fnArg, fnRes>>

\* handleTextCommand("ARM"): escArmNeutral(3000), stopMotor, printStatus
UnitArm ==
  /\ loopPc = "unit"
  /\ cmds < MaxCmds
  /\ now' = now + ARM_HOLD_MS
  /\ g_armed' = TRUE
  /\ stopMotor
  /\ UNCHANGED <<g_rampTimeMs, teleVars, g_deviceConnected>>
  /\ printStatus("ARMED")
  /\ cmds' = cmds + 1
  /\ lastWriter' = "loop"
  /\ quiet' = QuietFrom(now', 0, 0)
  /\ fnOp' = "arm"
  /\ UNCHANGED <<g_escCfg, g_lastLoopMs, g_lastLogMs, bleUp, loopTask,
                 bleTask, iters, stopped, prevOut, fnArg, fnRes>>
  /\ handled' = NotHandled
  /\ arming' = [cmds |-> arming.cmds + 1, holds |-> arming.holds + 1]
  /\ UNCHANGED logHist

\* applyThrottleWithRamping(), d ms after the previous call
UnitTick(d) ==
  /\ loopPc = "unit"
  /\ iters < MaxIters
  /\ now' = now + d
  /\ tkDt' = TickDt(now', g_lastLoopMs)
  /\ g_lastLoopMs' = now'
  /\ tkRamp' = g_rampTimeMs
  /\ LET r == applyThrottleWithRamping(g_escCfg, g_armed, g_rampTimeMs, tkDt',
                                       g_targetPct, g_outputPct)
     IN  /\ g_outputPct' = r.out
         /\ tkOut' = r.out
         /\ prevOut' = r.out
         /\ escWriteMicrosecondsSafe(r.us)
  /\ lastWriter' = "loop"
  /\ quiet' = [quiet EXCEPT !.ticked = TRUE]
  /\ lastLine' = NoLine
  /\ iters' = iters + 1
  /\ fnOp' = "tick"
  /\ UNCHANGED <<g_escCfg, g_armed, g_targetPct, g_rampTimeMs, teleVars,
                 g_lastLogMs, g_deviceConnected, bleUp, loopPc, loopT0,
                 bleTask, cmds, stopped, fnArg, fnRes>>
  /\ handled' = NotHandled
  /\ UNCHANGED <<logHist, arming>>

NextUnit ==
  \/ \E c \in Lines : UnitLine(c)
  \/ UnitArm
  \/ \E d \in UnitDts : UnitTick(d)

SpecUnit == InitUnit /\ [][NextUnit]_vars

(***************************************************************************)
(* Pure functions applied to every input of a range                        *)
(***************************************************************************)
FnInputs == (0 - FnSpan) .. (EscConfig.usMax + FnSpan)

InitFn ==
  /\ StaticInit
  /\ loopPc = "fn"
  /\ fnOp = "none" /\ fnArg \in FnInputs /\ fnRes = 0

allButFn ==
  <<g_escCfg, g_armed, g_targetPct, g_outputPct, g_lastLoopMs, g_rampTimeMs,
    teleVars, g_lastLogMs, g_deviceConnected, pulse, pulseRaw, lastLine, now,
    bleUp, loopTask, bleTask, cmds, iters, lastWriter, stopped, prevOut,
    quiet, handled, logHist, arming>>

\* escClampForwardOnly(fnArg)
FnClamp ==
  /\ loopPc = "fn" /\ fnOp = "none"
  /\ fnRes' = escClampForwardOnly(g_escCfg, fnArg)
  /\ fnOp' = "clamp"
  /\ UNCHANGED <<allButFn, fnArg>>

\* escPulseFromPercent(fnArg), fnArg a uint8_t
FnPulse ==
  /\ loopPc = "fn" /\ fnOp = "none"
  /\ fnArg \in 0 .. 255
  /\ fnRes' = escPulseFromPercent(g_escCfg, fnArg)
  /\ fnOp' = "pulse"
  /\ UNCHANGED <<allButFn, fnArg>>

\* rpm targets: every RpmStep-th rpm, to beyond twice the no-load speed
RpmStep == 25

\* percentFromTargetRpm(fnArg * RpmStep)
FnRpm ==
  /\ loopPc = "fn" /\ fnOp = "none"
  /\ fnRes' = percentFromTargetRpm(fnArg * RpmStep)
  /\ fnOp' = "rpm"
  /\ UNCHANGED <<allButFn, fnArg>>

\* percentFromTargetRpm(estimateRpmFromPercent(fnArg)), fnArg a percentage
FnRoundTrip(e) ==
  /\ loopPc = "fn" /\ fnOp = "none"
  /\ fnArg \in 0 .. 100
  /\ LET rpm == estimateRpmFromPercent(fnArg)
     IN  fnRes' = percentFromTargetRpmOf(rpm.num, rpm.den, e)
  /\ fnOp' = "roundtrip"
  /\ UNCHANGED <<allButFn, fnArg>>

NextFn ==
  \/ FnClamp
  \/ FnPulse
  \/ FnRpm
  \/ \E e \in (0 - FloatErr) .. FloatErr : FnRoundTrip(e)

SpecFn == InitFn /\ [][NextFn]_vars

(***************************************************************************)
(* The whole program run through the two timed scenarios: the lines of the  *)
(* scenario on either transport, and loop periods in lumps long enough to  *)
(* cover the scenario's time span in MaxIters iterations                   *)
(***************************************************************************)
RampLines == {WithArg("RAMP", 1000), WithArg("SET", 100)}
\* loop periods of the ramp scenario
RampDts == {100, 150, 250}

NextRamp ==
  \/ AppSetup
  \/ \E d \in HoldDts : LoopHoldWait(d)
  \/ LoopHoldDone
  \/ SerialNone
  \/ \E c \in RampLines : SerialLine(c)
  \/ \E d \in RampDts : TickRead(d)
  \/ \E d \in RampDts : TickWrite(d)
  \/ BleConnect
  \/ \E c \in RampLines : BleWrite(c)

SpecRamp == Init /\ [][NextRamp]_vars

LogLines == {WithArg("LOG PERIOD", 100), Plain("LOG START"), Plain("LOG STOP")}
\* loop period of the log scenario: its log period, so that the gate is
\* looked at exactly at the instants at which the 5 ms loop finds it open
LogDts == {100}

NextLog ==
  \/ AppSetup
  \/ \E d \in HoldDts : LoopHoldWait(d)
  \/ LoopHoldDone
  \/ SerialNone
  \/ \E c \in LogLines : SerialLine(c)
  \/ \E d \in LogDts : TickRead(d)
  \/ \E d \in LogDts : TickWrite(d)
  \/ BleConnect
  \/ \E c \in LogLines : BleWrite(c)

SpecLog == Init /\ [][NextLog]_vars

(***************************************************************************)
(* handleTextCommand applied once, to a line of a wider set, with           *)
(* g_targetPct anywhere in its range                                       *)
(***************************************************************************)
\* arguments around the bounds of the three clamps
CmdArgs == {-1, 0, 19, 20, 21, 50, 100, 101, 9999, 10000, 10001}
\* state digits of a Control Pad packet: release, press, anything else
CmdBtnStates == {0, 1, 2}

CmdLines ==
  {[kw |-> "!B", arg |-> 0, btn |-> b, st |-> t] :
     b \in BtnIds, t \in CmdBtnStates}
  \cup {WithArg(k, a) : k \in {"SET", "RAMP", "LOG PERIOD"}, a \in CmdArgs}
  \cup {WithArg("US", a) : a \in UsArgs}
  \cup {Plain(k) : k \in {"FOO", "SETX", "!B5"}}

InitCmd ==
  /\ StaticOther
  /\ g_targetPct \in 0 .. 100
  /\ loopPc = "cmd"
  /\ fnOp = "none" /\ fnArg = 0 /\ fnRes = 0

\* handleTextCommand(c)
CmdLine(c) ==
  /\ loopPc = "cmd" /\ fnOp = "none"
  /\ handleTextCommand(c, "loop")
  /\ cmds' = cmds + 1
  /\ fnOp' = "line"
  /\ UNCHANGED <<g_escCfg, g_lastLoopMs, g_lastLogMs, now, bleUp, loopTask,
                 bleTask, iters, prevOut, fnArg, fnRes>>

NextCmd == \E c \in CmdLines : CmdLine(c)

SpecCmd == InitCmd /\ [][NextCmd]_vars

(***************************************************************************)
(* applyThrottleWithRamping called again and again, each call running to   *)
(* completion, from every state of a grid of states of the ramp engine     *)
(***************************************************************************)
TickTargets == {0, 30, 100}
\* g_outputPct, in 1/PctScale percent: 0, 0.1, 9.99, 30, 50 and 100 percent
TickOutputs == {0, 30, 2997, 9000, 15000, 30000}
TickRamps == {0, 1, 300, 1000, 10000}
\* time between two calls
TickDts == {1, 5, 150, 2000}
\* millis() at the first call of the run
TickStart == 3500

InitTick ==
  /\ StaticRest
  /\ g_armed \in BOOLEAN
  /\ g_targetPct \in TickTargets
  /\ g_outputPct \in (IF g_armed THEN TickOutputs ELSE {0})
  /\ g_rampTimeMs \in TickRamps
  /\ g_lastLoopMs \in {0, TickStart}
  /\ now = TickStart
  /\ pulse = escClampForwardOnly(g_escCfg,
                escPulseFromPercent(g_escCfg, RoundPct(g_outputPct)))
  /\ pulseRaw = escPulseFromPercent(g_escCfg, RoundPct(g_outputPct))
  /\ loopPc = "unit"
  /\ fnOp = "none" /\ fnArg = 0 /\ fnRes = 0

NextTick == \E d \in TickDts : UnitTick(d)

SpecTick == InitTick /\ [][NextTick]_vars

(***************************************************************************)
(* Claims                                                                  *)
(***************************************************************************)
Neutral == g_escCfg.usNeutral
InForwardBand(us) == g_escCfg.usMinFwd <= us /\ us <= g_escCfg.usMaxFwd
AnyHold == Holding(loopPc) \/ blePc = "hold"
\* the step that ends an armed tick (the store into g_outputPct and the pulse)
TickWriteStep == loopPc = "tick_w" /\ loopPc' # "tick_w"

\* C1: every pulse width handed to the actuator driver, on any code path
\* (tick, STOP, boot/ARM arming, raw US <n>), is usNeutral or lies in
\* [usMinFwd, usMaxFwd].
C1_PulseForwardOnly ==
  pulse # 0 => (pulse = Neutral \/ InForwardBand(pulse))

\* C1 witness: a raw US <n> below the forward band (and not neutral) has been
\* handled and the driver got usNeutral.
C1_Witness ==
  /\ lastLine.tag = "US"
  /\ pulseRaw < g_escCfg.usMinFwd /\ pulseRaw # Neutral
  /\ pulse = Neutral

\* C2: armed, rampTimeMs > 0: between two consecutive ticks outputPct never
\* rises by more than 100*dt/rampTimeMs, dt the time between those ticks,
\* whatever lines were handled in between.
C2_RampRateBound ==
  [][(TickWriteStep /\ tkRamp > 0 /\ prevOut >= 0)
       => g_outputPct' - prevOut <= MaxDelta(tkDt, tkRamp)]_vars

\* C3: no command handler runs on the BLE task: every store into the control
\* state (armed, targetPct, outputPct, rampTimeMs) is made by the loop task.
C3_OnlyLoopWritesControl == lastWriter # "ble"

\* C4: once a STOP (or 0, or the STOP button) has been handled, the target is 0
\* and the pulse at the driver is usNeutral, and no non-neutral pulse is issued
\* until a later line raises the target, also when the STOP was handled by
\* the BLE callback in the middle of a tick. (A later US line, which issues
\* the pulse it is given, is taken to end the stop as well.)
C4_StopSticks ==
  stopped => (g_targetPct = 0 /\ pulse = Neutral)

\* C5: while not armed, a tick forces outputPct to 0 and issues usNeutral,
\* whatever targetPct is.
C5_UnarmedTickNeutral ==
  (fnOp = "tick" /\ ~g_armed) => (g_outputPct = 0 /\ pulse = Neutral)

\* C5 witness: SET 80 handled while unarmed, then two ticks.
C5_Witness ==
  /\ fnOp = "tick" /\ ~g_armed
  /\ g_targetPct = 80 /\ iters >= 2
  /\ g_outputPct = 0 /\ pulse = Neutral

\* C6: while an arming hold is in progress the pulse stays at usNeutral and no
\* line from either transport changes targetPct.
C6_HoldNeutralBlocksTarget ==
  [][(AnyHold /\ AnyHold')
       => (pulse' = Neutral /\ g_targetPct' = g_targetPct)]_vars

\* C7: armed, target fixed at or above the output and no line handled: each
\* tick leaves outputPct no lower than before and no higher than targetPct, and
\* a tick that runs rampTimeMs or more after the last line leaves it equal to
\* targetPct.
C7_RampMonotoneConverges ==
  /\ [][(TickWriteStep /\ quiet.ticked
          /\ g_outputPct <= g_targetPct * PctScale)
         => (g_outputPct <= g_outputPct'
             /\ g_outputPct' <= g_targetPct * PctScale)]_vars
  /\ []((g_armed /\ quiet.ticked /\ quiet.up /\ loopPc # "tick_w"
          /\ g_lastLoopMs - quiet.since >= g_rampTimeMs)
         => g_outputPct = g_targetPct * PctScale)

\* C7 witness: a ramp with rampTimeMs > 0 went from below the target through
\* an intermediate value and is at the target once rampTimeMs has elapsed.
C7_Witness ==
  /\ g_armed /\ quiet.ticked /\ quiet.up /\ quiet.mid /\ loopPc # "tick_w"
  /\ g_rampTimeMs > 0
  /\ g_lastLoopMs - quiet.since >= g_rampTimeMs
  /\ g_targetPct > 0
  /\ g_outputPct = g_targetPct * PctScale

\* C8: for pct in 0..100, escPulseFromPercent(pct) is usNeutral for pct = 0,
\* else usMinFwd + ((usMaxFwd - usMinFwd) * pct) / 100 truncated, within
\* [usMinFwd, usMaxFwd].
C8_PulseFromPercent ==
  (fnOp = "pulse" /\ fnArg \in 0 .. 100)
    => IF fnArg = 0 THEN fnRes = Neutral
       ELSE /\ fnRes = g_escCfg.usMinFwd
                       + ((g_escCfg.usMaxFwd - g_escCfg.usMinFwd) * fnArg) \div 100
            /\ InForwardBand(fnRes)

\* C8 witness: 100 % maps to usMaxFwd.
C8_Witness ==
  fnOp = "pulse" /\ fnArg = 100 /\ fnRes = g_escCfg.usMaxFwd

\* C9 as stated: the forward-only clamp never returns a value strictly between
\* usMin and usMinFwd.
C9_NeverBetweenMinAndMinFwd ==
  fnOp = "clamp" => ~(g_escCfg.usMin < fnRes /\ fnRes < g_escCfg.usMinFwd)

\* C9 amended: the clamp never returns a value strictly between usMin and
\* usMinFwd other than usNeutral; it returns usNeutral for every input below
\* usMinFwd, usMaxFwd for every input above usMaxFwd, the input otherwise.
C9_ClampSnapsToNeutral ==
  fnOp = "clamp" =>
    /\ (g_escCfg.usMin < fnRes /\ fnRes < g_escCfg.usMinFwd) => fnRes = Neutral
    /\ fnArg < g_escCfg.usMinFwd => fnRes = Neutral
    /\ fnArg > g_escCfg.usMaxFwd => fnRes = g_escCfg.usMaxFwd
    /\ InForwardBand(fnArg) => fnRes = fnArg

\* C9 witness: an input between usNeutral and usMinFwd came back as usNeutral.
C9_Witness ==
  /\ fnOp = "clamp"
  /\ Neutral < fnArg /\ fnArg < g_escCfg.usMinFwd
  /\ fnRes = Neutral

\* C10 as stated: usMin <= usMinFwd <= usNeutral <= usMaxFwd <= usMax in every
\* reachable state, and the bounds are never modified.
C10_OrderAsStated ==
  /\ g_escCfg.usMin <= g_escCfg.usMinFwd
  /\ g_escCfg.usMinFwd <= g_escCfg.usNeutral
  /\ g_escCfg.usNeutral <= g_escCfg.usMaxFwd
  /\ g_escCfg.usMaxFwd <= g_escCfg.usMax
  /\ g_escCfg = EscConfig

\* C10 amended: usMin <= usNeutral <= usMinFwd <= usMaxFwd <= usMax in every
\* reachable state, and no line or tick modifies any of the bounds.
C10_ConfigOrdered ==
  /\ g_escCfg.usMin <= g_escCfg.usNeutral
  /\ g_escCfg.usNeutral <= g_escCfg.usMinFwd
  /\ g_escCfg.usMinFwd <= g_escCfg.usMaxFwd
  /\ g_escCfg.usMaxFwd <= g_escCfg.usMax
  /\ g_escCfg = EscConfig

\* C10 witness: lines have been handled and ticks have run, the configuration
\* is as constructed.
C10_Witness ==
  /\ cmds >= 2 /\ iters >= 2 /\ lastWriter = "ble"
  /\ g_escCfg = EscConfig

\* C11: SET v leaves targetPct = clamp(v, 0, 100), RAMP v leaves rampTimeMs =
\* clamp(v, 0, 10000), LOG PERIOD v leaves logPeriodMs = clamp(v, 20, 10000);
\* the three fields stay within their ranges, and the status line the command
\* emits reports the clamped value.
C11_ClampedAndEchoed ==
  /\ g_targetPct \in 0 .. 100
  /\ g_rampTimeMs \in 0 .. 10000
  /\ g_logPeriodMs \in 20 .. 10000
  /\ handled.line.kw = "SET" =>
       /\ g_targetPct = clampInt(handled.line.arg, 0, 100)
       /\ lastLine.kind = "STATUS"
       /\ lastLine.targetPct = clampInt(handled.line.arg, 0, 100)
  /\ handled.line.kw = "RAMP" =>
       /\ g_rampTimeMs = clampInt(handled.line.arg, 0, 10000)
       /\ lastLine.kind = "STATUS"
       /\ lastLine.ramp = clampInt(handled.line.arg, 0, 10000)
  /\ handled.line.kw = "LOG PERIOD" =>
       /\ g_logPeriodMs = clampInt(handled.line.arg, 20, 10000)
       /\ lastLine.kind = "STATUS"
       /\ "logPeriod" \in DOMAIN lastLine
       /\ lastLine.logPeriod = clampInt(handled.line.arg, 20, 10000)

\* the control state and the driver are as the handled line found them
ControlAsFound ==
  /\ g_armed = handled.armed
  /\ g_targetPct = handled.targetPct
  /\ g_outputPct = handled.outputPct
  /\ g_rampTimeMs = handled.rampTimeMs
PulseAsFound == pulse = handled.pulse /\ pulseRaw = handled.pulseRaw

MatchesNoRule(c) ==
  c.kw \notin {"(none)", "", "!B", "HELP", "LED ON", "LED OFF", "ARM", "STOP",
               "0", "FULL", "1", "DBG ON", "DBG OFF", "LOG START", "LOG STOP",
               "STATUS", "SET", "RPM", "US", "RAMP", "LOG PERIOD"}
UnmappedPress(c) ==
  /\ c.kw = "!B" /\ c.st = 1
  /\ c.btn \notin {BTN_UP_ID, BTN_DOWN_ID, BTN_FULL_ID, BTN_STOP_ID}

\* C12: a line that matches no command rule, and a press of a button that is
\* not one of the four mapped ids, produce a diagnostic message only: armed,
\* targetPct, outputPct, rampTimeMs, logEnabled and logPeriodMs are unchanged
\* and the handler issues no pulse.
C12_UnknownOnlyDiagnostic ==
  (MatchesNoRule(handled.line) \/ UnmappedPress(handled.line)) =>
    /\ lastLine.kind = "TEXT"
    /\ lastLine.tag \in {"Unknown cmd", "CPAD: unknown button"}
    /\ ControlAsFound
    /\ g_logEnabled = handled.logEnabled
    /\ g_logPeriodMs = handled.logPeriodMs
    /\ PulseAsFound

\* C12 witness: an unknown line was handled with a nonzero target in place, and
\* only the diagnostic came out.
C12_Witness ==
  /\ MatchesNoRule(handled.line)
  /\ handled.targetPct = 50 /\ g_targetPct = 50
  /\ lastLine.tag = "Unknown cmd"

\* C13: a target set while the controller is not armed is deferred, not lost:
\* SET while unarmed leaves its value in targetPct, outputPct stays 0 until
\* the controller is armed, and the step that arms it keeps the target, so
\* that the ramp then runs to it.
C13_DeferredTargetKept ==
  /\ []((handled.line.kw = "SET" /\ ~handled.armed)
         => g_targetPct = clampInt(handled.line.arg, 0, 100))
  /\ [](~g_armed => g_outputPct = 0)
  /\ [][(~g_armed /\ g_armed') => g_targetPct' = g_targetPct]_vars

\* C14: only a press acts: a button event whose state digit is not 1 leaves
\* targetPct, outputPct, armed and rampTimeMs unchanged for every id and issues
\* no pulse; the FULL id with state 1 sets targetPct = 100.
C14_OnlyPressActs ==
  /\ (handled.line.kw = "!B" /\ handled.line.st # 1)
       => (ControlAsFound /\ PulseAsFound)
  /\ (handled.line.kw = "!B" /\ handled.line.st = 1
        /\ handled.line.btn = BTN_FULL_ID)
       => g_targetPct = 100

\* C14 witness: the FULL id with state 0 came in with targetPct = 50 and left
\* it there.
C14_Witness ==
  /\ handled.line.kw = "!B" /\ handled.line.btn = BTN_FULL_ID
  /\ handled.line.st = 0
  /\ handled.targetPct = 50 /\ g_targetPct = 50

Min(a, b) == IF a < b THEN a ELSE b
Max(a, b) == IF a > b THEN a ELSE b

\* C15: a press of UP sets targetPct to min(targetPct + 5, 100), of DOWN to
\* max(targetPct - 5, 0), of FULL to 100 and of STOP to 0, for every prior
\* targetPct in 0..100, and targetPct stays within 0..100.
C15_ButtonMap ==
  (handled.line.kw = "!B" /\ handled.line.st = 1) =>
    /\ g_targetPct \in 0 .. 100
    /\ handled.line.btn = BTN_UP_ID
         => g_targetPct = Min(handled.targetPct + 5, 100)
    /\ handled.line.btn = BTN_DOWN_ID
         => g_targetPct = Max(handled.targetPct - 5, 0)
    /\ handled.line.btn = BTN_FULL_ID => g_targetPct = 100
    /\ handled.line.btn = BTN_STOP_ID => g_targetPct = 0

\* C15 witness: UP pressed at targetPct = 98 stopped at 100.
C15_Witness ==
  /\ handled.line.kw = "!B" /\ handled.line.st = 1
  /\ handled.line.btn = BTN_UP_ID
  /\ handled.targetPct = 98 /\ g_targetPct = 100

\* C16: US <n> leaves targetPct, outputPct, armed and rampTimeMs unchanged; it
\* issues the forward-only-clamped pulse and emits a status line that reports
\* the target as it was.
C16_UsKeepsControlState ==
  handled.line.kw = "US" =>
    /\ ControlAsFound
    /\ pulse = escClampForwardOnly(g_escCfg, handled.line.arg)
    /\ lastLine.kind = "STATUS"
    /\ lastLine.targetPct = handled.targetPct

\* C17: SET is idempotent: a SET <v> handled when targetPct already is the
\* value SET <v> leaves (a second SET <v>, with or without ticks in between)
\* changes nothing the ramp engine reads or writes: targetPct, outputPct,
\* rampTimeMs, armed, the time of the last tick and the pulse are as before, so
\* the ticks that follow run as after a single SET <v>.
C17_SetIdempotent ==
  [][(handled'.line.kw = "SET"
       /\ g_targetPct = clampInt(handled'.line.arg, 0, 100))
      => UNCHANGED <<g_targetPct, g_outputPct, g_rampTimeMs, g_armed,
                     g_lastLoopMs, pulse>>]_vars

\* C17 witness: SET 80 handled a second time in the armed state, part of the
\* way up the ramp to 80.
C17_Witness ==
  /\ handled.line.kw = "SET" /\ handled.line.arg = 80
  /\ handled.targetPct = 80 /\ g_targetPct = 80
  /\ g_armed
  /\ 0 < g_outputPct /\ g_outputPct < 80 * PctScale

\* C18: armed, after RAMP 1000 and SET 100 from outputPct = 0: the tick that
\* runs once 500 ms of loop time have elapsed leaves outputPct = 50 and issues
\* usMinFwd + (usMaxFwd - usMinFwd)/2, however many ticks made up the 500 ms
\* and however they were spaced. Elapsed time is counted as the ramp engine
\* measures it, from the tick before the lines were handled, and from the
\* lines themselves when no tick had run yet.
C18_HalfwayAfterHalfRamp ==
  LET base == IF quiet.tick0 = 0 THEN quiet.since ELSE quiet.tick0
  IN  (/\ g_armed /\ g_rampTimeMs = 1000 /\ g_targetPct = 100
       /\ quiet.from = 0 /\ quiet.ticked /\ loopPc # "tick_w"
       /\ g_lastLoopMs - base = 500)
      => /\ g_outputPct = 50 * PctScale
         /\ pulse = g_escCfg.usMinFwd
                     + (g_escCfg.usMaxFwd - g_escCfg.usMinFwd) \div 2

\* C19: after LOG PERIOD 100 then LOG START (handled while appLoop is
\* running), exactly 3 CSV lines are emitted over the next 350 ms of loop
\* iterations, and their t_ms fields are strictly increasing.
C19_ThreeCsvLinesIn350 ==
  LET InWindow(t) == t - logHist.since <= 350
      n == Len(logHist.stamps)
  IN  (/\ g_logEnabled /\ logHist.since >= 0 /\ logHist.inLoop
       /\ logHist.period = 100 /\ g_logPeriodMs = 100
       /\ now - logHist.since > 350)
      => /\ Len(SelectSeq(logHist.stamps, InWindow)) = 3
         /\ \A i \in 1 .. n - 1 : logHist.stamps[i] < logHist.stamps[i + 1]

\* C20: the controller starts unarmed and becomes armed only as the result of
\* an ARM command, and the arming protocol runs once per boot: armed is false
\* until an ARM line has been taken in, and the neutral hold of escArmNeutral
\* is never begun a second time.
C20_ArmedOnlyByArmOnce ==
  /\ g_armed => arming.cmds >= 1
  /\ arming.holds <= 1

\* the commands that change state or report it on request
StatusCommands ==
  {"STOP", "0", "FULL", "1", "SET", "RPM", "US", "RAMP", "LOG PERIOD"}
\* the lines that only switch telemetry, the LED or print the help
ToggleCommands ==
  {"LOG START", "LOG STOP", "DBG ON", "DBG OFF", "LED ON", "LED OFF", "HELP"}
\* 0 and 1 are other spellings of STOP and FULL
CommandName(kw) == IF kw = "0" THEN "STOP" ELSE IF kw = "1" THEN "FULL" ELSE kw
\* the step's one line is a status line with tag t that shows the state as the
\* step left it
StatusAfter(t) ==
  /\ lastLine.kind = "STATUS"
  /\ lastLine.tag = t
  /\ lastLine.targetPct = g_targetPct
  /\ lastLine.ramp = g_rampTimeMs
  /\ lastLine.log = g_logEnabled
  /\ lastLine.pulse = escPulseFromPercent(g_escCfg, RoundPct(g_outputPct))

\* C21 as stated: every handled ARM, STOP, FULL, SET, RPM, US, RAMP and LOG
\* PERIOD ends by emitting one status line, built after its state change, whose
\* tag is the name of the command; LOG START/STOP, DBG, LED and HELP emit no
\* status line.
C21_TagIsCommandName ==
  /\ handled.line.kw \in StatusCommands
       => StatusAfter(CommandName(handled.line.kw))
  /\ fnOp = "arm" => StatusAfter("ARM")
  /\ handled.line.kw \in ToggleCommands => lastLine.kind # "STATUS"

\* C21 amended: every handled ARM, STOP, FULL, SET, RPM, US, RAMP and LOG
\* PERIOD ends by emitting one status line, built after its state change, whose
\* tag is the name of the command for STOP, FULL, SET, RPM, US and RAMP, ARMED
\* for ARM and LOGPER for LOG PERIOD; LOG START/STOP, DBG, LED and HELP emit
\* no status line.
C21_StatusTagged ==
  /\ handled.line.kw \in StatusCommands \ {"LOG PERIOD"}
       => StatusAfter(CommandName(handled.line.kw))
  /\ handled.line.kw = "LOG PERIOD" => StatusAfter("LOGPER")
  /\ fnOp = "arm" => StatusAfter("ARMED")
  /\ handled.line.kw \in ToggleCommands => lastLine.kind = "TEXT"

\* C21 witness: a SET that changed the target was handled, and its status line
\* carries the tag SET and the new target.
C21_Witness ==
  /\ handled.line.kw = "SET" /\ handled.targetPct # 80
  /\ g_targetPct = 80
  /\ lastLine.kind = "STATUS" /\ lastLine.tag = "SET"
  /\ lastLine.targetPct = 80

\* C22: for every integer p in 0..100, percentFromTargetRpm(
\* estimateRpmFromPercent(p)) = p, whatever rounding error (within FloatErr)
\* the float quotient carries; percentFromTargetRpm returns 0 for every
\* non-positive target and never a value above 100.
C22_RpmRoundTrip ==
  /\ fnOp = "roundtrip" => fnRes = fnArg
  /\ fnOp = "rpm" => (fnRes \in 0 .. 100 /\ (fnArg <= 0 => fnRes = 0))

\* C22 witness: 50 % came back as 50 % through an estimate that is not a whole
\* number of rpm.
C22_Witness ==
  /\ fnOp = "roundtrip" /\ fnArg = 50 /\ fnRes = 50
  /\ estimateRpmFromPercent(50).num % estimateRpmFromPercent(50).den # 0

\* C23: each armed tick with rampTimeMs > 0 and dt > 0 leaves outputPct between
\* the old outputPct and targetPct (inclusive), no further than
\* 100*dt/rampTimeMs from the old one and within [0, 100]; when the distance
\* to targetPct is at most 100*dt/rampTimeMs the tick leaves it equal to
\* targetPct.
C23_TickMovesToward ==
  [][(fnOp' = "tick" /\ g_armed /\ g_rampTimeMs > 0 /\ tkDt' > 0) =>
       LET old == g_outputPct
           new == g_outputPct'
           t   == g_targetPct * PctScale
       IN  /\ Min(old, t) <= new /\ new <= Max(old, t)
           /\ Abs(new - old) * g_rampTimeMs <= 100 * PctScale * tkDt'
           /\ 0 <= new /\ new <= 100 * PctScale
           /\ Abs(t - old) * g_rampTimeMs <= 100 * PctScale * tkDt'
                => new = t]_vars

\* C23 witness: the first tick of a run, 150 ms after the one before, with
\* rampTimeMs = 1000 and the target at 30 left outputPct at 35: it came down
\* from 50 by the 15 the tick allows.
C23_Witness ==
  /\ fnOp = "tick" /\ g_armed /\ iters = 1
  /\ tkDt = 150 /\ tkRamp = 1000
  /\ g_targetPct = 30 /\ g_outputPct = 35 * PctScale
  /\ pulse = escPulseFromPercent(g_escCfg, 35)

\* C24: an arming hold does not stall the system: by the time a hold on the
\* loop task has lasted its ARM_HOLD_MS the ramp engine has ticked since the
\* hold began, and while a hold is in progress a line arriving on the other
\* transport can be taken in and applied (over BLE during a hold of the loop
\* task, over the serial line during a hold of the BLE task).
C24_HoldDoesNotStall ==
  /\ (Holding(loopPc) /\ now - loopT0 >= ARM_HOLD_MS)
       => g_lastLoopMs >= loopT0
  /\ (Holding(loopPc) /\ g_deviceConnected /\ blePc = "idle"
        /\ cmds < MaxCmds)
       => ENABLED BleWrite(WithArg("SET", 80))
  /\ (blePc = "hold" /\ loopPc = "serial" /\ iters < MaxIters
        /\ cmds < MaxCmds)
       => ENABLED SerialLine(WithArg("SET", 80))

\* C25: the periodic CSV line is gated by the log period: a CSV line comes only
\* from a loop iteration, never while logEnabled is false; an iteration emits
\* one exactly when logEnabled is true and now - lastLog >= logPeriodMs, and
\* then leaves lastLog = now; the CSV line before it, if any, is at least
\* logPeriodMs older.
C25_CsvGated ==
  [][LET emits    == lastLine'.kind = "CSV"
         endsIter == iters' = iters + 1
         open     == g_logEnabled /\ now - g_lastLogMs >= g_logPeriodMs
     IN  /\ emits => /\ endsIter /\ open
                     /\ g_lastLogMs' = now
                     /\ logHist.prev >= 0 => now - logHist.prev >= g_logPeriodMs
         /\ (endsIter /\ open) => emits
         /\ ~emits => UNCHANGED g_lastLogMs]_vars

\* C25 witness: with logPeriodMs = 200 and iterations 100 ms apart, two CSV
\* lines came out 200 ms apart: the iteration between them emitted none.
C25_Witness ==
  /\ lastLine.kind = "CSV" /\ g_logEnabled /\ g_logPeriodMs = 200
  /\ Len(logHist.stamps) >= 2
  /\ logHist.stamps[2] - logHist.stamps[1] = 200
  /\ g_lastLogMs = logHist.stamps[2]

\* C26: the pulse width a status line or a CSV line reports is the pulse width
\* most recently issued to the actuator driver at the moment the line is
\* produced.
C26_ReportedPulseIsIssued ==
  lastLine.kind \in {"STATUS", "CSV"} => lastLine.pulse = pulse

\* C27: the first tick after boot is ramp-limited like every later one: with
\* rampTimeMs > 0, outputPct at 0 and a nonzero target set before that tick,
\* the tick does not leave outputPct equal to the target.
C27_FirstTickRampLimited ==
  [][(TickWriteStep /\ prevOut = -1 /\ tkRamp > 0
       /\ g_outputPct = 0 /\ g_targetPct > 0)
      => g_outputPct' < g_targetPct * PctScale]_vars

====
